---- MODULE Spec2Model ----
(***************************************************************************)
(* Model of sidquark/KeyValueDatabase: the Engine (database.DB), its       *)
(* in-memory Index (storage.HashTable), the append-only Log                *)
(* (persistence.Log) and Recovery (persistence.Recovery).                  *)
(*                                                                         *)
(* Keys are sequences of character codes, values are Go byte slices (a nil *)
(* flag and a byte sequence).  The log file is kept at record level: one   *)
(* element per record the writer put on disk, with the fields              *)
(* serializeEntry writes (operation byte, key bytes, value bytes) and a    *)
(* flag telling whether the write of the record was cut short.  The        *)
(* timestamp field is left out of the engine-level records: no Engine      *)
(* operation reads it.  Log.currSize is left out as well: Append and       *)
(* Compact assign it and nothing reads it.                                 *)
(***************************************************************************)
EXTENDS Integers, Sequences, FiniteSets, TLC

VARIABLES
    storage,     \* db.storage: HashTable.buckets, bucket index -> entries map
    isClosed,    \* db.isClosed
    closeChan,   \* db.closeChan: "open" or "closed"
    bgRunning,   \* the goroutine of startBackgroundTasks has not returned
    panicked,    \* the process died in a Go panic
    log,         \* db.log: the fields of persistence.Log
    disk,        \* the log directory: database.log's records, temp.log's existence
    call,        \* the name of the operation that ran last
    ret,         \* what that operation returned
    committed,   \* history: key -> value of the mutations that returned success
    config,      \* db.config: the AutoRecover flag
    newPc,       \* the statement database.New stands at, "returned" once it has returned
    logEntries,  \* byte level: the LogEntry values Append wrote, in order
    fileBytes,   \* byte level: the bytes of database.log
    damaged,     \* byte level: the index of the record a byte was flipped in, 0 for none
    read,        \* byte level: what readEntry returned on the file, <<>> before the call
    recovered,   \* byte level: what RecoverEntries returned, <<>> before the call
    scan,        \* byte level: RecoverEntries' loop taken one iteration at a time
    pc,          \* step level: per goroutine, the call it is in and where it stands
    dbMutex,     \* step level: the goroutine holding db.mutex for writing, or "none"
    logMutex     \* step level: the goroutine holding l.mutex, or "none"

engineVars == <<storage, isClosed, closeChan, bgRunning, panicked, log, disk, call, ret,
                committed>>
newVars == <<config, newPc>>
codecVars == <<logEntries, fileBytes, damaged, read, recovered, scan>>
procVars == <<pc, dbMutex, logMutex>>

vars == <<engineVars, newVars, codecVars, procVars>>

---------------------------------------------------------------------------
(* Bounds of the model *)

MaxLogLen == 3      \* a call that gets to Log.Append is issued while the file holds fewer records
NumBuckets == 2     \* config.NumBuckets

KeyText == <<1, 2>>             \* the keys are the prefixes of KeyText, the empty one too
ValueBytes == {<<>>, <<1>>}     \* the byte sequences of the non-nil values

(* Program constants *)

OperationSet == 1
OperationDelete == 2
MaxKeyBytes == 65535

---------------------------------------------------------------------------
(* Inputs *)

Keys == {SubSeq(KeyText, 1, n) : n \in 0..Len(KeyText)}
EmptyKey == <<>>

NilValue == [isNil |-> TRUE, bytes |-> <<>>]
Values == {NilValue} \cup {[isNil |-> FALSE, bytes |-> b] : b \in ValueBytes}

\* How a write to the log file ends: all of it written, none of it, a part of it.
WriteOutcomes == {"ok", "fail", "torn"}
\* How closing the log file ends.
CloseOutcomes == {"ok", "fail"}
\* How opening the log file ends.
OpenOutcomes == {"ok", "fail"}
\* The operating-system call of Compact that fails, if any.
CompactFailures == {"none", "create", "closeOld", "closeTemp", "rename", "reopen", "stat"}

---------------------------------------------------------------------------
(* storage.HashTable *)

RECURSIVE SumChars(_)
SumChars(key) == IF key = <<>> THEN 0 ELSE Head(key) + SumChars(Tail(key))

hash(key) == SumChars(key) % NumBuckets

NewHashTable == [b \in 0..(NumBuckets - 1) |-> <<>>]

\* bucket.entries[key] = value
MapPut(m, key, value) ==
    [k \in DOMAIN m \cup {key} |-> IF k = key THEN value ELSE m[k]]

\* delete(bucket.entries, key)
MapDelete(m, key) == [k \in DOMAIN m \ {key} |-> m[k]]

HashTableSet(ht, key, value) ==
    [ht EXCEPT ![hash(key)] = MapPut(@, key, value)]

HashTableHas(ht, key) == key \in DOMAIN ht[hash(key)]

HashTableGet(ht, key) ==
    IF HashTableHas(ht, key)
    THEN [value |-> ht[hash(key)][key], exists |-> TRUE]
    ELSE [value |-> NilValue, exists |-> FALSE]

HashTableDelete(ht, key) ==
    IF HashTableHas(ht, key)
    THEN [ht EXCEPT ![hash(key)] = MapDelete(@, key)]
    ELSE ht

\* The keys in the order-free result of HashTable.Keys.
HashTableKeys(ht) == UNION {DOMAIN ht[b] : b \in DOMAIN ht}

RECURSIVE SumBuckets(_, _)
SumBuckets(ht, b) ==
    IF b < 0 THEN 0 ELSE Cardinality(DOMAIN ht[b]) + SumBuckets(ht, b - 1)

HashTableSize(ht) == SumBuckets(ht, NumBuckets - 1)

---------------------------------------------------------------------------
(* persistence.Log *)

\* The fields serializeEntry puts on the wire for an entry: a nil value and an
\* empty value both become value length 0.
serializeEntry(operation, key, value) ==
    [op |-> operation, key |-> key, value |-> value.bytes, torn |-> FALSE]

NewLog == [file |-> "open", writerErr |-> FALSE, isCompacted |-> FALSE]
NewDisk == [log |-> <<>>, temp |-> FALSE]

\* Log.Append without the check of Flush's error.
LogAppend_IgnoreFlushError(l, d, operation, key, value, io) ==
    IF Len(key) > MaxKeyBytes
    THEN [log |-> l, disk |-> d, err |-> "serialize"]
    ELSE IF l.writerErr
    THEN [log |-> l, disk |-> d, err |-> "write"]
    ELSE IF l.file # "open" \/ io = "fail"
    THEN [log |-> [l EXCEPT !.writerErr = TRUE], disk |-> d, err |-> "nil"]
    ELSE IF io = "torn"
    THEN [log |-> [l EXCEPT !.writerErr = TRUE],
          disk |-> [d EXCEPT !.log = Append(@, [op |-> operation, key |-> key,
                                                value |-> value.bytes, torn |-> TRUE])],
          err |-> "nil"]
    ELSE [log |-> l,
          disk |-> [d EXCEPT !.log = Append(@, [op |-> operation, key |-> key,
                                                value |-> value.bytes, torn |-> FALSE])],
          err |-> "nil"]

\* Log.Append on a file opened without O_APPEND: a write replaces what the file
\* held.
LogAppend_Truncating(l, d, operation, key, value, io) ==
    IF Len(key) > MaxKeyBytes
    THEN [log |-> l, disk |-> d, err |-> "serialize"]
    ELSE IF l.writerErr
    THEN [log |-> l, disk |-> d, err |-> "write"]
    ELSE IF l.file # "open" \/ io = "fail"
    THEN [log |-> [l EXCEPT !.writerErr = TRUE], disk |-> d, err |-> "flush"]
    ELSE IF io = "torn"
    THEN [log |-> [l EXCEPT !.writerErr = TRUE],
          disk |-> [d EXCEPT !.log = <<[serializeEntry(operation, key, value)
                                           EXCEPT !.torn = TRUE]>>],
          err |-> "flush"]
    ELSE [log |-> l,
          disk |-> [d EXCEPT !.log = <<serializeEntry(operation, key, value)>>],
          err |-> "nil"]

\* Log.Append.  io is how the write of the flushed bytes to the file ends.  The
\* bufio.Writer keeps its first error: once a write failed, Write and Flush
\* return that error without touching the file.
LogAppend(l, d, operation, key, value, io) ==
    IF Len(key) > MaxKeyBytes
    THEN [log |-> l, disk |-> d, err |-> "serialize"]
    ELSE IF l.writerErr
    THEN [log |-> l, disk |-> d, err |-> "write"]
    ELSE IF l.file # "open" \/ io = "fail"
    THEN [log |-> [l EXCEPT !.writerErr = TRUE], disk |-> d, err |-> "flush"]
    ELSE IF io = "torn"
    THEN [log |-> [l EXCEPT !.writerErr = TRUE],
          disk |-> [d EXCEPT !.log = Append(@, [serializeEntry(operation, key, value)
                                                    EXCEPT !.torn = TRUE])],
          err |-> "flush"]
    ELSE [log |-> l,
          disk |-> [d EXCEPT !.log = Append(@, serializeEntry(operation, key, value))],
          err |-> "nil"]

\* Log.Close.  io is how file.Close ends.
LogClose(l, io) ==
    IF l.file = "nil"
    THEN [log |-> l, err |-> "nil"]
    ELSE IF l.writerErr
    THEN [log |-> l, err |-> "flush"]
    ELSE [log |-> [l EXCEPT !.file = "nil"],
          err |-> IF l.file = "closed" \/ io # "ok" THEN "close" ELSE "nil"]

\* Log.Compact renaming the temporary file onto the log path before it closes
\* the temporary file.
LogCompact_RenameFirst(l, d, failAt) ==
    IF l.isCompacted
    THEN [log |-> l, disk |-> d, err |-> "nil"]
    ELSE IF failAt = "create"
    THEN [log |-> l, disk |-> d, err |-> "create"]
    ELSE IF l.writerErr
    THEN [log |-> l, disk |-> [d EXCEPT !.temp = FALSE], err |-> "flush"]
    ELSE IF l.file # "open" \/ failAt = "closeOld"
    THEN [log |-> [l EXCEPT !.file = IF @ = "nil" THEN "nil" ELSE "closed"],
          disk |-> [d EXCEPT !.temp = FALSE], err |-> "closeOld"]
    ELSE IF failAt = "rename"
    THEN [log |-> [l EXCEPT !.file = "closed"],
          disk |-> [d EXCEPT !.temp = TRUE], err |-> "rename"]
    ELSE IF failAt = "closeTemp"
    THEN [log |-> [l EXCEPT !.file = "closed"],
          disk |-> [log |-> <<>>, temp |-> FALSE], err |-> "closeTemp"]
    ELSE IF failAt = "reopen"
    THEN [log |-> [l EXCEPT !.file = "nil"],
          disk |-> [log |-> <<>>, temp |-> FALSE], err |-> "reopen"]
    ELSE IF failAt = "stat"
    THEN [log |-> [l EXCEPT !.file = "open", !.writerErr = FALSE],
          disk |-> [log |-> <<>>, temp |-> FALSE], err |-> "stat"]
    ELSE [log |-> [l EXCEPT !.file = "open", !.writerErr = FALSE],
          disk |-> [log |-> <<>>, temp |-> FALSE], err |-> "nil"]

\* Log.Compact.  failAt names the operating-system call that fails, if any.
LogCompact(l, d, failAt) ==
    IF l.isCompacted
    THEN [log |-> l, disk |-> d, err |-> "nil"]
    ELSE IF failAt = "create"
    THEN [log |-> l, disk |-> d, err |-> "create"]
    ELSE IF l.writerErr
    THEN [log |-> l, disk |-> [d EXCEPT !.temp = FALSE], err |-> "flush"]
    ELSE IF l.file # "open" \/ failAt = "closeOld"
    THEN [log |-> [l EXCEPT !.file = IF @ = "nil" THEN "nil" ELSE "closed"],
          disk |-> [d EXCEPT !.temp = FALSE], err |-> "closeOld"]
    ELSE IF failAt = "closeTemp"
    THEN [log |-> [l EXCEPT !.file = "closed"],
          disk |-> [d EXCEPT !.temp = FALSE], err |-> "closeTemp"]
    ELSE IF failAt = "rename"
    THEN [log |-> [l EXCEPT !.file = "closed"],
          disk |-> [d EXCEPT !.temp = TRUE], err |-> "rename"]
    ELSE IF failAt = "reopen"
    THEN [log |-> [l EXCEPT !.file = "nil"],
          disk |-> [log |-> <<>>, temp |-> FALSE], err |-> "reopen"]
    ELSE IF failAt = "stat"
    THEN [log |-> [l EXCEPT !.file = "open", !.writerErr = FALSE],
          disk |-> [log |-> <<>>, temp |-> FALSE], err |-> "stat"]
    ELSE [log |-> [l EXCEPT !.file = "open", !.writerErr = FALSE],
          disk |-> [log |-> <<>>, temp |-> FALSE], err |-> "nil"]

---------------------------------------------------------------------------
(* persistence.Recovery *)

\* readEntry on a record's bytes: a value length of 0 reads back as a nil value.
readEntry(rec) ==
    [op |-> rec.op, key |-> rec.key,
     value |-> IF Len(rec.value) > 0 THEN [isNil |-> FALSE, bytes |-> rec.value]
               ELSE NilValue]

\* RecoverEntries: the records that decode, in file order.  A record whose write
\* was cut short ends the file (its writer wrote nothing after it), reads as an
\* unexpected end of file and is skipped.
RECURSIVE RecoverEntries(_)
RecoverEntries(file) ==
    IF file = <<>> THEN <<>>
    ELSE IF Head(file).torn THEN RecoverEntries(Tail(file))
    ELSE <<readEntry(Head(file))>> \o RecoverEntries(Tail(file))

\* A replay loop that applies the Set records only.
RECURSIVE Replay_SetsOnly(_, _)
Replay_SetsOnly(ht, entries) ==
    IF entries = <<>> THEN ht
    ELSE LET e == Head(entries)
         IN  Replay_SetsOnly(IF e.op = OperationSet THEN HashTableSet(ht, e.key, e.value)
                             ELSE ht,
                             Tail(entries))

\* DB.recoverFromLog's replay loop, from the table ht.
RECURSIVE Replay(_, _)
Replay(ht, entries) ==
    IF entries = <<>> THEN ht
    ELSE LET e == Head(entries)
         IN  Replay(IF e.op = OperationSet THEN HashTableSet(ht, e.key, e.value)
                    ELSE IF e.op = OperationDelete THEN HashTableDelete(ht, e.key)
                    ELSE ht,
                    Tail(entries))

recoverFromLog(d) == Replay(NewHashTable, RecoverEntries(d.log))

---------------------------------------------------------------------------
(* database.DB *)

\* No byte-level log file is looked at.
CodecIdle ==
    /\ logEntries = <<>>
    /\ fileBytes = <<>>
    /\ damaged = 0
    /\ read = <<>>
    /\ recovered = <<>>
    /\ scan = <<>>

\* The goroutines: two clients of the Engine, the background task, three callers
\* of the Log's own methods.
Clients == {"c1", "c2"}
Background == "bg"
LogCallers == {"l1", "l2", "l3"}
Procs == Clients \cup {Background} \cup LogCallers

\* A goroutine that is in no call: at is where it stands, op the call it made
\* last, operation/key/value that call's arguments, err what it returned, keys
\* and size what Keys and Size have gathered, bucket the bucket they look at
\* next, n the number of calls made, during whether a compaction was in flight
\* when the goroutine called Append.
ProcIdle ==
    [at |-> "idle", op |-> "none", operation |-> 0, key |-> <<>>, value |-> NilValue,
     err |-> "nil", keys |-> {}, size |-> 0, bucket |-> 0, n |-> 0, during |-> FALSE]

\* No goroutine is in a call and no lock is held.
ProcsIdle ==
    /\ pc = [p \in Procs |-> ProcIdle]
    /\ dbMutex = "none"
    /\ logMutex = "none"

\* DefaultConfig, as far as New reads it past the constructors.
DefaultConfig == [AutoRecover |-> TRUE]

Result(err, value, keys, size) == [err |-> err, value |-> value, keys |-> keys, size |-> size]
Err(e) == Result(e, NilValue, {}, 0)
Ok == Err("nil")

Init ==
    /\ storage = NewHashTable
    /\ isClosed = FALSE
    /\ closeChan = "open"
    /\ bgRunning = TRUE
    /\ panicked = FALSE
    /\ log = NewLog
    /\ disk = NewDisk
    /\ call = "New"
    /\ ret = Ok
    /\ committed = <<>>
    /\ config = DefaultConfig
    /\ newPc = "returned"
    /\ CodecIdle
    /\ ProcsIdle

\* The rollback of DB.Set after a failed append: db.storage.Delete(key).
SetRollback(ht, key) == HashTableDelete(ht, key)

\* DB.Set validating its arguments before it looks at isClosed.
DBSetCheck_ValidateFirst(closed, key, value) ==
    IF key = EmptyKey THEN "ErrEmptyKey"
    ELSE IF value.isNil THEN "ErrNilValue"
    ELSE IF closed THEN "ErrDatabaseClosed"
    ELSE "nil"

\* DB.Set without the check of a nil value.
DBSetCheck_NoNilCheck(closed, key, value) ==
    IF closed THEN "ErrDatabaseClosed"
    ELSE IF key = EmptyKey THEN "ErrEmptyKey"
    ELSE "nil"

\* The checks DB.Set makes before it touches the Index, in their order.
DBSetCheck(closed, key, value) ==
    IF closed THEN "ErrDatabaseClosed"
    ELSE IF key = EmptyKey THEN "ErrEmptyKey"
    ELSE IF value.isNil THEN "ErrNilValue"
    ELSE "nil"

DBSet(key, value) ==
    /\ ~panicked
    /\ DBSetCheck(isClosed, key, value) = "nil" => Len(disk.log) < MaxLogLen
    /\ call' = "Set"
    /\ IF DBSetCheck(isClosed, key, value) # "nil"
       THEN /\ ret' = Err(DBSetCheck(isClosed, key, value))
            /\ UNCHANGED <<storage, log, disk, committed>>
       ELSE \E io \in WriteOutcomes :
            LET stored == HashTableSet(storage, key, value)
                a == LogAppend(log, disk, OperationSet, key, value, io)
            IN  /\ log' = a.log
                /\ disk' = a.disk
                /\ IF a.err # "nil"
                   THEN /\ storage' = SetRollback(stored, key)
                        /\ ret' = Err("AppendFailed")
                        /\ UNCHANGED committed
                   ELSE /\ storage' = stored
                        /\ ret' = Ok
                        /\ committed' = MapPut(committed, key, value)
    /\ UNCHANGED <<isClosed, closeChan, bgRunning, panicked>>
    /\ UNCHANGED <<newVars, codecVars, procVars>>

DBGetResult(ht, closed, key) ==
    IF closed THEN Err("ErrDatabaseClosed")
    ELSE IF key = EmptyKey THEN Err("ErrEmptyKey")
    ELSE LET g == HashTableGet(ht, key)
         IN  IF ~g.exists THEN Err("ErrKeyNotFound")
             ELSE Result("nil", g.value, {}, 0)

DBGet(key) ==
    /\ ~panicked
    /\ call' = "Get"
    /\ ret' = DBGetResult(storage, isClosed, key)
    /\ UNCHANGED <<storage, isClosed, closeChan, bgRunning, panicked, log, disk, committed>>
    /\ UNCHANGED <<newVars, codecVars, procVars>>

\* DB.Delete without the check that the key exists.
DBDeleteCheck_NoExistsCheck(ht, closed, key) ==
    IF closed THEN "ErrDatabaseClosed"
    ELSE IF key = EmptyKey THEN "ErrEmptyKey"
    ELSE "nil"

\* The checks DB.Delete makes before it touches the Index, in their order.
DBDeleteCheck(ht, closed, key) ==
    IF closed THEN "ErrDatabaseClosed"
    ELSE IF key = EmptyKey THEN "ErrEmptyKey"
    ELSE IF ~HashTableGet(ht, key).exists THEN "ErrKeyNotFound"
    ELSE "nil"

DBDelete(key) ==
    /\ ~panicked
    /\ DBDeleteCheck(storage, isClosed, key) = "nil" => Len(disk.log) < MaxLogLen
    /\ call' = "Delete"
    /\ IF DBDeleteCheck(storage, isClosed, key) # "nil"
       THEN /\ ret' = Err(DBDeleteCheck(storage, isClosed, key))
            /\ UNCHANGED <<storage, log, disk, committed>>
       ELSE \E io \in WriteOutcomes :
            LET removed == HashTableDelete(storage, key)
                a == LogAppend(log, disk, OperationDelete, key, NilValue, io)
            IN  /\ log' = a.log
                /\ disk' = a.disk
                /\ IF a.err # "nil"
                   THEN /\ storage' = removed      \* returned without a rollback
                        /\ ret' = Err("AppendFailed")
                        /\ UNCHANGED committed
                   ELSE /\ storage' = removed
                        /\ ret' = Ok
                        /\ committed' = MapDelete(committed, key)
    /\ UNCHANGED <<isClosed, closeChan, bgRunning, panicked>>
    /\ UNCHANGED <<newVars, codecVars, procVars>>

DBKeysResult(ht, closed) ==
    IF closed THEN Result("nil", NilValue, {}, 0)
    ELSE Result("nil", NilValue, HashTableKeys(ht), 0)

DBKeys ==
    /\ ~panicked
    /\ call' = "Keys"
    /\ ret' = DBKeysResult(storage, isClosed)
    /\ UNCHANGED <<storage, isClosed, closeChan, bgRunning, panicked, log, disk, committed>>
    /\ UNCHANGED <<newVars, codecVars, procVars>>

DBSizeResult(ht, closed) ==
    IF closed THEN Result("nil", NilValue, {}, 0)
    ELSE Result("nil", NilValue, {}, HashTableSize(ht))

DBSize ==
    /\ ~panicked
    /\ call' = "Size"
    /\ ret' = DBSizeResult(storage, isClosed)
    /\ UNCHANGED <<storage, isClosed, closeChan, bgRunning, panicked, log, disk, committed>>
    /\ UNCHANGED <<newVars, codecVars, procVars>>

\* DB.Close.  close(db.closeChan) on a closed channel panics.
DBClose ==
    /\ ~panicked
    /\ call' = "Close"
    /\ IF isClosed
       THEN ret' = Ok /\ UNCHANGED <<isClosed, closeChan, panicked, log>>
       ELSE IF closeChan = "closed"
       THEN /\ panicked' = TRUE
            /\ ret' = Err("panic")
            /\ UNCHANGED <<isClosed, closeChan, log>>
       ELSE \E io \in CloseOutcomes :
            LET c == LogClose(log, io)
            IN  /\ closeChan' = "closed"
                /\ log' = c.log
                /\ isClosed' = (c.err = "nil")
                /\ ret' = IF c.err = "nil" THEN Ok ELSE Err("CloseFailed")
                /\ UNCHANGED panicked
    /\ UNCHANGED <<storage, bgRunning, disk, committed>>
    /\ UNCHANGED <<newVars, codecVars, procVars>>

\* startBackgroundTasks: the select takes a tick and runs db.log.Compact().
BackgroundCompact ==
    /\ ~panicked
    /\ bgRunning
    /\ call' = "Compact"
    /\ \E failAt \in CompactFailures :
          LET c == LogCompact(log, disk, failAt)
          IN  /\ log' = c.log
              /\ disk' = c.disk
              /\ ret' = Err(c.err)
    /\ UNCHANGED <<storage, isClosed, closeChan, bgRunning, panicked, committed>>
    /\ UNCHANGED <<newVars, codecVars, procVars>>

\* startBackgroundTasks: the select takes <-db.closeChan and the goroutine returns.
BackgroundStop ==
    /\ ~panicked
    /\ bgRunning
    /\ closeChan = "closed"
    /\ bgRunning' = FALSE
    /\ UNCHANGED <<storage, isClosed, closeChan, panicked, log, disk, call, ret, committed>>
    /\ UNCHANGED <<newVars, codecVars, procVars>>

ClientCall ==
    \/ \E key \in Keys, value \in Values : DBSet(key, value)
    \/ \E key \in Keys : DBGet(key)
    \/ \E key \in Keys : DBDelete(key)
    \/ DBKeys
    \/ DBSize
    \/ DBClose

Next ==
    \/ ClientCall
    \/ BackgroundCompact
    \/ BackgroundStop

Spec == Init /\ [][Next]_vars

\* Clients call one after another and the compactor's timer does not fire.
NextNoCompact ==
    \/ ClientCall
    \/ BackgroundStop

SpecNoCompact == Init /\ [][NextNoCompact]_vars

---------------------------------------------------------------------------
(* database.New, statement by statement *)

MaxPriorLen == 2    \* the log file New finds holds at most so many records

\* The whole records a log file can hold.
WholeRecords ==
    {serializeEntry(OperationSet, key, value) :
        key \in Keys \ {EmptyKey}, value \in Values \ {NilValue}}
    \cup {serializeEntry(OperationDelete, key, NilValue) : key \in Keys \ {EmptyKey}}

\* The log files an earlier run can have left: whole records, the last of them
\* possibly cut short by the crash that ended the run.
PriorLogs ==
    {f \in UNION {[1..n -> WholeRecords] : n \in 0..MaxPriorLen} : TRUE}
    \cup {[f EXCEPT ![Len(f)].torn = TRUE] :
            f \in UNION {[1..n -> WholeRecords] : n \in 1..MaxPriorLen}}

\* The Log before NewLog has made one.
NoLog == [file |-> "nil", writerErr |-> FALSE, isCompacted |-> FALSE]

\* New is entered: the HashTable and the Recovery are made, the log file is not
\* opened yet.
InitNew ==
    /\ storage = NewHashTable
    /\ isClosed = FALSE
    /\ closeChan = "open"
    /\ bgRunning = FALSE
    /\ panicked = FALSE
    /\ log = NoLog
    /\ disk \in {[log |-> f, temp |-> FALSE] : f \in PriorLogs}
    /\ call = "New"
    /\ ret = Ok
    /\ committed = <<>>
    /\ config \in {[AutoRecover |-> a] : a \in BOOLEAN}
    /\ newPc = "NewLog"
    /\ CodecIdle
    /\ ProcsIdle

\* persistence.NewLog: MkdirAll, OpenFile with O_APPEND|O_CREATE, Stat.
NewOpenLog ==
    /\ newPc = "NewLog"
    /\ \E io \in OpenOutcomes :
          IF io = "ok"
          THEN log' = NewLog /\ newPc' = "recover" /\ ret' = ret
          ELSE log' = log /\ newPc' = "failed" /\ ret' = Err("initialization")
    /\ UNCHANGED <<storage, isClosed, closeChan, bgRunning, panicked, disk, call,
                   committed, config>>
    /\ UNCHANGED <<codecVars, procVars>>

\* if config.AutoRecover { db.recoverFromLog() }: os.Open of the file can fail.
NewRecover ==
    /\ newPc = "recover"
    /\ IF config.AutoRecover
       THEN \E io \in OpenOutcomes :
              IF io = "ok"
              THEN /\ storage' = Replay(storage, RecoverEntries(disk.log))
                   /\ newPc' = "go"
                   /\ UNCHANGED <<log, ret>>
              ELSE /\ log' = LogClose(log, "ok").log
                   /\ newPc' = "failed"
                   /\ ret' = Err("recovery")
                   /\ UNCHANGED storage
       ELSE /\ newPc' = "go"
            /\ UNCHANGED <<storage, log, ret>>
    /\ UNCHANGED <<isClosed, closeChan, bgRunning, panicked, disk, call, committed, config>>
    /\ UNCHANGED <<codecVars, procVars>>

\* go db.startBackgroundTasks()
NewGo ==
    /\ newPc = "go"
    /\ bgRunning' = TRUE
    /\ newPc' = "return"
    /\ UNCHANGED <<storage, isClosed, closeChan, panicked, log, disk, call, ret,
                   committed, config>>
    /\ UNCHANGED <<codecVars, procVars>>

\* return db, nil
NewReturn ==
    /\ newPc = "return"
    /\ newPc' = "returned"
    /\ UNCHANGED <<engineVars, config>>
    /\ UNCHANGED <<codecVars, procVars>>

\* The calls that read the Engine, and Close.
ReadCall ==
    \/ \E key \in Keys : DBGet(key)
    \/ DBKeys
    \/ DBSize
    \/ DBClose

\* Clients call once New has handed them the Engine, here to read what it
\* recovered and to close it; the background task runs from its go statement on.
NextNew ==
    \/ NewOpenLog
    \/ NewRecover
    \/ NewGo
    \/ NewReturn
    \/ newPc = "returned" /\ ReadCall
    \/ BackgroundCompact
    \/ BackgroundStop

SpecNew == InitNew /\ [][NextNew]_vars

---------------------------------------------------------------------------
(* The log file byte by byte: serializeEntry, calculateChecksum, readEntry,     *)
(* RecoverEntries.  A LogEntry has the fields of the Go struct.  Timestamp, an   *)
(* int64, is held as four 16-bit limbs, the least significant first; Checksum,  *)
(* a uint32, is held as 32 bits, the least significant first.                   *)

MaxEntries == 3       \* Append writes at most so many records to the file
MaxFileBytes == 290   \* and only while the file stays within so many bytes
LongKeyLen == 256     \* the length of the long key
MaxDamagedBytes == 70 \* a byte is flipped, the tail cut off, in files of at most so many bytes

Bit(n, k) == (n \div (2 ^ k)) % 2

\* a ^ b on bytes.
XorByte(a, b) ==
    LET x(k) == ((Bit(a, k) + Bit(b, k)) % 2) * (2 ^ k)
    IN  x(0) + x(1) + x(2) + x(3) + x(4) + x(5) + x(6) + x(7)

\* binary.LittleEndian.PutUint16 / PutUint32 of a number below 2^31.
RECURSIVE LittleEndian(_, _)
LittleEndian(n, count) ==
    IF count = 0 THEN <<>> ELSE <<n % 256>> \o LittleEndian(n \div 256, count - 1)

PutUint16(n) == LittleEndian(n % 65536, 2)
Uint16(b) == b[1] + 256 * b[2]
PutUint32(n) == LittleEndian(n, 4)
Uint32(b) == b[1] + 256 * b[2] + 65536 * b[3] + 16777216 * b[4]

\* binary.LittleEndian.PutUint64(uint64(timestamp)) and int64(Uint64(bytes)).
PutUint64(limbs) ==
    LittleEndian(limbs[1], 2) \o LittleEndian(limbs[2], 2)
        \o LittleEndian(limbs[3], 2) \o LittleEndian(limbs[4], 2)
Uint64(b) ==
    <<b[1] + 256 * b[2], b[3] + 256 * b[4], b[5] + 256 * b[6], b[7] + 256 * b[8]>>

\* binary.LittleEndian.PutUint32 and Uint32 of a checksum.
PutChecksum(bits) ==
    [k \in 1..4 |->
        LET x(j) == bits[8 * (k - 1) + j + 1] * (2 ^ j)
        IN  x(0) + x(1) + x(2) + x(3) + x(4) + x(5) + x(6) + x(7)]
GetChecksum(b) == [i \in 1..32 |-> Bit(b[((i - 1) \div 8) + 1], (i - 1) % 8)]

\* crc32.IEEE, reversed: bit i of the polynomial is the coefficient of x^(32 - i).
IEEEExponents == {0, 1, 2, 4, 5, 7, 8, 10, 11, 12, 16, 22, 23, 26}
IEEE == [i \in 1..32 |-> IF (32 - i) \in IEEEExponents THEN 1 ELSE 0]

ShiftRight(bits, k) == [i \in 1..32 |-> IF i + k <= 32 THEN bits[i + k] ELSE 0]
XorBits(a, b) == [i \in 1..32 |-> (a[i] + b[i]) % 2]
NotBits(a) == [i \in 1..32 |-> 1 - a[i]]

\* crc32's table of the polynomial: eight shift-and-xor rounds from every byte.
RECURSIVE TableRounds(_, _)
TableRounds(crc, rounds) ==
    IF rounds = 0 THEN crc
    ELSE TableRounds(IF crc[1] = 1 THEN XorBits(ShiftRight(crc, 1), IEEE)
                     ELSE ShiftRight(crc, 1),
                     rounds - 1)

IEEETable ==
    [b \in 0..255 |-> TableRounds([i \in 1..32 |-> IF i <= 8 THEN Bit(b, i - 1) ELSE 0], 8)]

\* crc = tab[byte(crc) ^ v] ^ (crc >> 8)
CrcByte(crc, v) ==
    LET low == crc[1] + 2 * crc[2] + 4 * crc[3] + 8 * crc[4] + 16 * crc[5]
                   + 32 * crc[6] + 64 * crc[7] + 128 * crc[8]
    IN  XorBits(IEEETable[XorByte(low, v)], ShiftRight(crc, 8))

\* The loop of crc32's update over data[from..to], the first half of the range
\* and then the second (the test of half has the first half computed before the
\* second is entered).
RECURSIVE CrcUpdate(_, _, _, _)
CrcUpdate(crc, data, from, to) ==
    IF from > to THEN crc
    ELSE IF from = to THEN CrcByte(crc, data[from])
    ELSE LET mid == (from + to) \div 2
             half == CrcUpdate(crc, data, from, mid)
         IN  IF half[1] = 0
             THEN CrcUpdate(half, data, mid + 1, to)
             ELSE CrcUpdate(half, data, mid + 1, to)

ChecksumIEEE(data) == NotBits(CrcUpdate([i \in 1..32 |-> 1], data, 1, Len(data)))

\* calculateChecksum: the CRC of timestamp, operation, key and value.
calculateChecksum(entry) ==
    ChecksumIEEE(PutUint64(entry.Timestamp) \o <<entry.Operation>> \o entry.Key
                 \o (IF ~entry.Value.isNil THEN entry.Value.bytes ELSE <<>>))

\* serializeEntry on a LogEntry: the bytes, or the error of a key that is too long.
serializeEntryBytes(entry) ==
    IF Len(entry.Key) > MaxKeyBytes
    THEN [data |-> <<>>, err |-> "key is too long"]
    ELSE [data |-> PutUint64(entry.Timestamp) \o <<entry.Operation>>
                    \o PutUint16(Len(entry.Key)) \o entry.Key
                    \o (IF ~entry.Value.isNil
                        THEN PutUint32(Len(entry.Value.bytes)) \o entry.Value.bytes
                        ELSE PutUint32(0))
                    \o PutChecksum(entry.Checksum),
          err |-> "nil"]

\* io.ReadFull of n bytes from data, of which at bytes are consumed already.
ReadFull(data, at, n) ==
    IF n = 0 THEN [n |-> 0, err |-> "nil"]
    ELSE IF Len(data) - at = 0 THEN [n |-> 0, err |-> "EOF"]
    ELSE IF Len(data) - at < n THEN [n |-> Len(data) - at, err |-> "ErrUnexpectedEOF"]
    ELSE [n |-> n, err |-> "nil"]

\* A reader that takes every checksum for good.
checksumMismatch_Never(calculated, stored) == FALSE

\* if calculatedChecksum != checksum
checksumMismatch(calculated, stored) == calculated # stored

\* readEntry on the bytes the reader has left: the entry (none on an error), the
\* number of bytes consumed, the error.
readEntryBytes(data) ==
    LET fail(n, e) == [entry |-> <<>>, bytesRead |-> n, err |-> e]
        t == ReadFull(data, 0, 8)
    IN  IF t.err # "nil" THEN fail(t.n, t.err) ELSE
        LET o == ReadFull(data, 8, 1)
        IN  IF o.err # "nil" THEN fail(8 + o.n, o.err) ELSE
        LET kl == ReadFull(data, 9, 2)
        IN  IF kl.err # "nil" THEN fail(9 + kl.n, kl.err) ELSE
        LET keyLen == Uint16(SubSeq(data, 10, 11))
            k == ReadFull(data, 11, keyLen)
        IN  IF k.err # "nil" THEN fail(11 + k.n, k.err) ELSE
        LET vl == ReadFull(data, 11 + keyLen, 4)
        IN  IF vl.err # "nil" THEN fail(11 + keyLen + vl.n, vl.err) ELSE
        LET valueLen == Uint32(SubSeq(data, 12 + keyLen, 15 + keyLen))
            v == IF valueLen > 0 THEN ReadFull(data, 15 + keyLen, valueLen)
                 ELSE [n |-> 0, err |-> "nil"]
        IN  IF v.err # "nil" THEN fail(15 + keyLen + v.n, v.err) ELSE
        LET c == ReadFull(data, 15 + keyLen + valueLen, 4)
        IN  IF c.err # "nil" THEN fail(15 + keyLen + valueLen + c.n, c.err) ELSE
        LET bytesRead == 19 + keyLen + valueLen
            entry == [Timestamp |-> Uint64(SubSeq(data, 1, 8)),
                      Operation |-> data[9],
                      Key |-> SubSeq(data, 12, 11 + keyLen),
                      Value |-> IF valueLen > 0
                                THEN [isNil |-> FALSE,
                                      bytes |-> SubSeq(data, 16 + keyLen,
                                                       15 + keyLen + valueLen)]
                                ELSE NilValue,
                      Checksum |-> GetChecksum(SubSeq(data, bytesRead - 3, bytesRead))]
        IN  IF checksumMismatch(calculateChecksum(entry), entry.Checksum)
            THEN fail(bytesRead, "checksum mismatch")
            ELSE [entry |-> <<entry>>, bytesRead |-> bytesRead, err |-> "nil"]

\* RecoverEntries' loop over the bytes of an existing file: io.EOF ends it, a
\* record with any other error is skipped.
RECURSIVE RecoverLoop(_)
RecoverLoop(data) ==
    LET r == readEntryBytes(data)
        rest == SubSeq(data, r.bytesRead + 1, Len(data))
    IN  IF r.err = "EOF" THEN <<>>
        ELSE IF r.err # "nil" THEN RecoverLoop(rest)
        ELSE r.entry \o RecoverLoop(rest)

RecoverEntriesBytes(data) == [entries |-> RecoverLoop(data), err |-> "nil"]

\* The records Append is given at byte level.
CodecTimestamps == {<<1, 0, 0, 0>>, <<513, 65535, 0, 32768>>}
ShortKey == SubSeq(KeyText, 1, 1)
LongKey == [i \in 1..LongKeyLen |-> 1 + (i % 2)]
CodecEntries ==
    {[Timestamp |-> t, Operation |-> OperationSet, Key |-> k, Value |-> v] :
        t \in CodecTimestamps, k \in {ShortKey, LongKey}, v \in Values \ {NilValue}}
    \cup {[Timestamp |-> t, Operation |-> OperationDelete, Key |-> k, Value |-> NilValue] :
            t \in CodecTimestamps, k \in {ShortKey, LongKey}}

\* The byte a corruption xors into a payload byte.
FlipMasks == {1, 255}

\* The offsets, within its bytes, of a record's payload: timestamp, operation,
\* key bytes, value bytes.
PayloadOffsets(entry) ==
    (1..9) \cup (12..(11 + Len(entry.Key)))
        \cup ((16 + Len(entry.Key))..(15 + Len(entry.Key) + Len(entry.Value.bytes)))

\* The number of bytes serializeEntry makes of an entry: 8 + 1 + 2 + key + 4 +
\* value + 4.
EntryBytes(entry) == 19 + Len(entry.Key) + Len(entry.Value.bytes)

\* The number of bytes the first n records take in the file.
RECURSIVE BytesBefore(_, _)
BytesBefore(entries, n) ==
    IF n = 0 THEN 0
    ELSE BytesBefore(entries, n - 1) + EntryBytes(entries[n])

\* The file holds every byte of every record written to it.
FileWhole == Len(fileBytes) = BytesBefore(logEntries, Len(logEntries))

\* The records of which the file holds every byte.
CompleteRecords ==
    IF FileWhole THEN logEntries ELSE SubSeq(logEntries, 1, Len(logEntries) - 1)

\* A reader that gives back the bytes of a read that ended in an error.
ReaderAfter_Unread(pos, r) == IF r.err = "nil" THEN pos + r.bytesRead ELSE pos

\* Where the bufio.Reader stands after a readEntry that consumed r.bytesRead
\* bytes from position pos.
ReaderAfter(pos, r) == pos + r.bytesRead

InitCodec ==
    /\ storage = NewHashTable
    /\ isClosed = FALSE
    /\ closeChan = "open"
    /\ bgRunning = TRUE
    /\ panicked = FALSE
    /\ log = NewLog
    /\ disk = NewDisk
    /\ call = "New"
    /\ ret = Ok
    /\ committed = <<>>
    /\ config = DefaultConfig
    /\ newPc = "returned"
    /\ CodecIdle
    /\ ProcsIdle

\* Log.Append up to its flush: the entry gets its checksum, is serialized and
\* written to the end of the file.
AppendBytes(e) ==
    /\ damaged = 0 /\ read = <<>> /\ recovered = <<>> /\ scan = <<>>
    /\ FileWhole
    /\ Len(logEntries) < MaxEntries
    /\ Len(fileBytes) + EntryBytes(e) <= MaxFileBytes
    /\ LET entry == [Timestamp |-> e.Timestamp, Operation |-> e.Operation, Key |-> e.Key,
                     Value |-> e.Value, Checksum |-> calculateChecksum(e)]
           s == serializeEntryBytes(entry)
       IN  /\ s.err = "nil"
           /\ logEntries' = Append(logEntries, entry)
           /\ fileBytes' = fileBytes \o s.data
    /\ UNCHANGED <<damaged, read, recovered, scan>>
    /\ UNCHANGED <<engineVars, newVars, procVars>>

\* One payload byte of one record of the file changes.
FlipByte ==
    /\ damaged = 0 /\ read = <<>> /\ recovered = <<>> /\ scan = <<>>
    /\ FileWhole
    /\ Len(fileBytes) <= MaxDamagedBytes
    /\ \E i \in 1..Len(logEntries) :
        \E off \in PayloadOffsets(logEntries[i]), mask \in FlipMasks :
            LET at == BytesBefore(logEntries, i - 1) + off
            IN  /\ fileBytes' = [fileBytes EXCEPT ![at] = XorByte(fileBytes[at], mask)]
                /\ damaged' = i
    /\ UNCHANGED <<logEntries, read, recovered, scan>>
    /\ UNCHANGED <<engineVars, newVars, procVars>>

\* readEntry on a reader at the start of the file.
ReadEntryCall ==
    /\ damaged = 0 /\ read = <<>> /\ recovered = <<>> /\ scan = <<>>
    /\ FileWhole
    /\ logEntries # <<>>
    /\ read' = <<readEntryBytes(fileBytes)>>
    /\ UNCHANGED <<logEntries, fileBytes, damaged, recovered, scan>>
    /\ UNCHANGED <<engineVars, newVars, procVars>>

\* RecoverEntries on the file.
RecoverEntriesCall ==
    /\ read = <<>> /\ recovered = <<>> /\ scan = <<>>
    /\ logEntries # <<>>
    /\ recovered' = <<RecoverEntriesBytes(fileBytes)>>
    /\ UNCHANGED <<logEntries, fileBytes, damaged, read, scan>>
    /\ UNCHANGED <<engineVars, newVars, procVars>>

\* The file loses its tail: it ends inside its last record (a write cut short
\* by a crash).
TruncateFile ==
    /\ damaged = 0 /\ read = <<>> /\ recovered = <<>> /\ scan = <<>>
    /\ FileWhole
    /\ logEntries # <<>>
    /\ Len(fileBytes) <= MaxDamagedBytes
    /\ \E cut \in 1..(EntryBytes(logEntries[Len(logEntries)]) - 1) :
          fileBytes' = SubSeq(fileBytes, 1,
                              BytesBefore(logEntries, Len(logEntries) - 1) + cut)
    /\ UNCHANGED <<logEntries, damaged, read, recovered, scan>>
    /\ UNCHANGED <<engineVars, newVars, procVars>>

\* RecoverEntries up to its loop: the file exists and opens, the reader stands
\* at its start and there are no entries yet.
RecoverEntriesOpen ==
    /\ damaged = 0 /\ read = <<>> /\ recovered = <<>> /\ scan = <<>>
    /\ logEntries # <<>>
    /\ scan' = <<[pos |-> 0, entries |-> <<>>, n |-> 0, done |-> FALSE]>>
    /\ UNCHANGED <<logEntries, fileBytes, damaged, read, recovered>>
    /\ UNCHANGED <<engineVars, newVars, procVars>>

\* One iteration of RecoverEntries' loop: readEntry on what the reader has
\* left; io.EOF breaks the loop, any other error skips, no error appends.
RecoverEntriesIteration ==
    /\ scan # <<>>
    /\ ~scan[1].done
    /\ LET r == readEntryBytes(SubSeq(fileBytes, scan[1].pos + 1, Len(fileBytes)))
       IN  scan' = <<[pos |-> ReaderAfter(scan[1].pos, r),
                      entries |-> IF r.err = "nil" THEN scan[1].entries \o r.entry
                                  ELSE scan[1].entries,
                      n |-> scan[1].n + 1,
                      done |-> r.err = "EOF"]>>
    /\ UNCHANGED <<logEntries, fileBytes, damaged, read, recovered>>
    /\ UNCHANGED <<engineVars, newVars, procVars>>

NextCodec ==
    \/ (\E e \in CodecEntries : AppendBytes(e))
    \/ FlipByte
    \/ TruncateFile
    \/ ReadEntryCall
    \/ RecoverEntriesCall
    \/ RecoverEntriesOpen
    \/ RecoverEntriesIteration

SpecCodec == InitCodec /\ [][NextCodec]_vars

---------------------------------------------------------------------------
(* The calls step by step.  A step is what a goroutine does under one lock, or  *)
(* with none: the read of isClosed under db.mutex, one HashTable call under its *)
(* bucket lock, the body of a Log method under l.mutex.  Taking a lock that is  *)
(* held over further blocking calls (db.mutex in Close, l.mutex in every Log    *)
(* method) is a step of its own, so that a goroutine can be seen waiting.       *)

MaxCalls == 2       \* a client or a Log caller makes at most so many calls

shared == <<storage, isClosed, closeChan, bgRunning, panicked, log, disk>>
ghost == <<call, ret, committed, newVars, codecVars>>

\* A Lock that never waits.
LockFree_Always(holder) == TRUE

\* sync.Mutex.Lock / RWMutex.RLock can go on: no goroutine holds the lock (in
\* the case of RLock: for writing).
LockFree(holder) == holder = "none"

CompactionInFlight == \E q \in Procs : pc[q].at = "Compact.run"

\* The goroutine enters a call.
Enter(p, op, at, operation, key, value) ==
    [pc EXCEPT ![p] = [at |-> at, op |-> op, operation |-> operation, key |-> key,
                       value |-> value, err |-> "nil", keys |-> {}, size |-> 0,
                       bucket |-> 0, n |-> pc[p].n + 1, during |-> FALSE]]
Goto(p, at) == [pc EXCEPT ![p].at = at]
Return(p, err) == [pc EXCEPT ![p].at = "idle", ![p].err = err]
MayCall(p) == ~panicked /\ pc[p].at = "idle" /\ pc[p].n < MaxCalls
At(p, at) == ~panicked /\ pc[p].at = at

(* persistence.Log, from any caller *)

\* l.mutex.Lock() of Append.
AppendLock(p) ==
    /\ At(p, "Append.lock")
    /\ LockFree(logMutex)
    /\ logMutex' = p
    /\ pc' = Goto(p, "Append.write")
    /\ UNCHANGED <<shared, ghost, dbMutex>>

\* The body of Append and its deferred Unlock.  Back in DB.Set a failure leads
\* to the rollback, back in DB.Delete to the return of the error.
AppendWrite(p) ==
    /\ At(p, "Append.write")
    /\ \E io \in WriteOutcomes :
        LET a == LogAppend(log, disk, pc[p].operation, pc[p].key, pc[p].value, io)
        IN  /\ log' = a.log
            /\ disk' = a.disk
            /\ pc' = IF a.err = "nil" THEN Return(p, "nil")
                     ELSE IF pc[p].op = "Set"
                     THEN [pc EXCEPT ![p].at = "Set.rollback", ![p].err = "AppendFailed"]
                     ELSE Return(p, "AppendFailed")
    /\ logMutex' = "none"
    /\ UNCHANGED <<storage, isClosed, closeChan, bgRunning, panicked, ghost, dbMutex>>

\* l.mutex.Lock() of Compact.
CompactLock(p) ==
    /\ At(p, "Compact.lock")
    /\ LockFree(logMutex)
    /\ logMutex' = p
    /\ pc' = Goto(p, "Compact.run")
    /\ UNCHANGED <<shared, ghost, dbMutex>>

\* The body of Compact and its deferred Unlock.
CompactRun(p) ==
    /\ At(p, "Compact.run")
    /\ \E failAt \in CompactFailures :
        LET c == LogCompact(log, disk, failAt)
        IN  /\ log' = c.log
            /\ disk' = c.disk
            /\ pc' = Return(p, c.err)
    /\ logMutex' = "none"
    /\ UNCHANGED <<storage, isClosed, closeChan, bgRunning, panicked, ghost, dbMutex>>

\* l.mutex.Lock() of Log.Close.
LogCloseLock(p) ==
    /\ At(p, "LogClose.lock")
    /\ LockFree(logMutex)
    /\ logMutex' = p
    /\ pc' = Goto(p, "LogClose.run")
    /\ UNCHANGED <<shared, ghost, dbMutex>>

\* The body of Log.Close and its deferred Unlock; back in DB.Close, the rest of
\* DB.Close and its deferred Unlock of db.mutex.
LogCloseRun(p) ==
    /\ At(p, "LogClose.run")
    /\ \E io \in CloseOutcomes :
        LET c == LogClose(log, io)
        IN  /\ log' = c.log
            /\ pc' = Return(p, IF c.err = "nil" THEN "nil"
                               ELSE IF pc[p].op = "Close" THEN "CloseFailed" ELSE c.err)
            /\ IF pc[p].op = "Close"
               THEN isClosed' = (c.err = "nil") /\ dbMutex' = "none"
               ELSE UNCHANGED <<isClosed, dbMutex>>
    /\ logMutex' = "none"
    /\ UNCHANGED <<storage, closeChan, bgRunning, panicked, disk, ghost>>

\* A goroutine calls l.Append, l.Compact, l.Close itself.
AppendCall(p, operation, key, value) ==
    /\ MayCall(p)
    /\ Len(disk.log) < MaxLogLen
    /\ pc' = [Enter(p, "Append", "Append.lock", operation, key, value)
                EXCEPT ![p].during = CompactionInFlight]
    /\ UNCHANGED <<shared, ghost, dbMutex, logMutex>>

CompactCall(p) ==
    /\ MayCall(p)
    /\ pc' = Enter(p, "Compact", "Compact.lock", 0, <<>>, NilValue)
    /\ UNCHANGED <<shared, ghost, dbMutex, logMutex>>

LogCloseCall(p) ==
    /\ MayCall(p)
    /\ pc' = Enter(p, "LogClose", "LogClose.lock", 0, <<>>, NilValue)
    /\ UNCHANGED <<shared, ghost, dbMutex, logMutex>>

LogStep(p) ==
    \/ AppendLock(p)
    \/ AppendWrite(p)
    \/ CompactLock(p)
    \/ CompactRun(p)
    \/ LogCloseLock(p)
    \/ LogCloseRun(p)

(* database.DB, from a client *)

\* The checks of Get and Delete that need no look at the Index.
DBKeyCheck(closed, key) ==
    IF closed THEN "ErrDatabaseClosed"
    ELSE IF key = EmptyKey THEN "ErrEmptyKey"
    ELSE "nil"

SetCall(p, key, value) ==
    /\ MayCall(p)
    /\ pc' = Enter(p, "Set", "Set.closed", OperationSet, key, value)
    /\ UNCHANGED <<shared, ghost, dbMutex, logMutex>>

\* db.mutex.RLock(), the read of isClosed, RUnlock(), and the validation.
SetClosed(p) ==
    /\ At(p, "Set.closed")
    /\ LockFree(dbMutex)
    /\ pc' = IF DBSetCheck(isClosed, pc[p].key, pc[p].value) # "nil"
             THEN Return(p, DBSetCheck(isClosed, pc[p].key, pc[p].value))
             ELSE Goto(p, "Set.store")
    /\ UNCHANGED <<shared, ghost, dbMutex, logMutex>>

\* db.storage.Set(key, value), and the call of db.log.Append.
SetStore(p) ==
    /\ At(p, "Set.store")
    /\ storage' = HashTableSet(storage, pc[p].key, pc[p].value)
    /\ pc' = [pc EXCEPT ![p].at = "Append.lock", ![p].during = CompactionInFlight]
    /\ UNCHANGED <<isClosed, closeChan, bgRunning, panicked, log, disk, ghost,
                   dbMutex, logMutex>>

\* db.storage.Delete(key) after the failed append, and the return of the error.
SetUndo(p) ==
    /\ At(p, "Set.rollback")
    /\ storage' = SetRollback(storage, pc[p].key)
    /\ pc' = Return(p, "AppendFailed")
    /\ UNCHANGED <<isClosed, closeChan, bgRunning, panicked, log, disk, ghost,
                   dbMutex, logMutex>>

DeleteCall(p, key) ==
    /\ MayCall(p)
    /\ pc' = Enter(p, "Delete", "Delete.closed", OperationDelete, key, NilValue)
    /\ UNCHANGED <<shared, ghost, dbMutex, logMutex>>

DeleteClosed(p) ==
    /\ At(p, "Delete.closed")
    /\ LockFree(dbMutex)
    /\ pc' = IF DBKeyCheck(isClosed, pc[p].key) # "nil"
             THEN Return(p, DBKeyCheck(isClosed, pc[p].key))
             ELSE Goto(p, "Delete.exists")
    /\ UNCHANGED <<shared, ghost, dbMutex, logMutex>>

\* _, exists := db.storage.Get(key)
DeleteExists(p) ==
    /\ At(p, "Delete.exists")
    /\ pc' = IF HashTableGet(storage, pc[p].key).exists THEN Goto(p, "Delete.remove")
             ELSE Return(p, "ErrKeyNotFound")
    /\ UNCHANGED <<shared, ghost, dbMutex, logMutex>>

\* db.storage.Delete(key), and the call of db.log.Append.
DeleteRemove(p) ==
    /\ At(p, "Delete.remove")
    /\ storage' = HashTableDelete(storage, pc[p].key)
    /\ pc' = [pc EXCEPT ![p].at = "Append.lock", ![p].during = CompactionInFlight]
    /\ UNCHANGED <<isClosed, closeChan, bgRunning, panicked, log, disk, ghost,
                   dbMutex, logMutex>>

GetCall(p, key) ==
    /\ MayCall(p)
    /\ pc' = Enter(p, "Get", "Get.closed", 0, key, NilValue)
    /\ UNCHANGED <<shared, ghost, dbMutex, logMutex>>

GetClosed(p) ==
    /\ At(p, "Get.closed")
    /\ LockFree(dbMutex)
    /\ pc' = IF DBKeyCheck(isClosed, pc[p].key) # "nil"
             THEN Return(p, DBKeyCheck(isClosed, pc[p].key))
             ELSE Goto(p, "Get.read")
    /\ UNCHANGED <<shared, ghost, dbMutex, logMutex>>

\* value, exists := db.storage.Get(key)
GetRead(p) ==
    /\ At(p, "Get.read")
    /\ pc' = [pc EXCEPT ![p].at = "idle",
                        ![p].value = HashTableGet(storage, pc[p].key).value,
                        ![p].err = IF HashTableGet(storage, pc[p].key).exists THEN "nil"
                                   ELSE "ErrKeyNotFound"]
    /\ UNCHANGED <<shared, ghost, dbMutex, logMutex>>

\* Keys and Size: the read of isClosed, then HashTable.Keys / HashTable.Size one
\* bucket at a time, each under its bucket's RLock.
ScanCall(p, op) ==
    /\ MayCall(p)
    /\ pc' = Enter(p, op, "Scan.closed", 0, <<>>, NilValue)
    /\ UNCHANGED <<shared, ghost, dbMutex, logMutex>>

ScanClosed(p) ==
    /\ At(p, "Scan.closed")
    /\ LockFree(dbMutex)
    /\ pc' = IF isClosed THEN Return(p, "nil") ELSE Goto(p, "Scan.bucket")
    /\ UNCHANGED <<shared, ghost, dbMutex, logMutex>>

ScanBucket(p) ==
    /\ At(p, "Scan.bucket")
    /\ pc' = [pc EXCEPT
                ![p].keys = IF pc[p].op = "Keys" THEN @ \cup DOMAIN storage[pc[p].bucket]
                            ELSE @,
                ![p].size = IF pc[p].op = "Size"
                            THEN @ + Cardinality(DOMAIN storage[pc[p].bucket])
                            ELSE @,
                ![p].bucket = @ + 1,
                ![p].at = IF pc[p].bucket + 1 = NumBuckets THEN "idle" ELSE "Scan.bucket"]
    /\ UNCHANGED <<shared, ghost, dbMutex, logMutex>>

CloseCall(p) ==
    /\ MayCall(p)
    /\ pc' = Enter(p, "Close", "Close.lock", 0, <<>>, NilValue)
    /\ UNCHANGED <<shared, ghost, dbMutex, logMutex>>

\* db.mutex.Lock(), the test of isClosed, close(db.closeChan) and the call of
\* db.log.Close().  close of a closed channel panics and the process dies.
CloseLock(p) ==
    /\ At(p, "Close.lock")
    /\ LockFree(dbMutex)
    /\ IF isClosed
       THEN /\ pc' = Return(p, "nil")
            /\ UNCHANGED <<closeChan, panicked, dbMutex>>
       ELSE IF closeChan = "closed"
       THEN /\ panicked' = TRUE
            /\ pc' = [pc EXCEPT ![p].at = "panic", ![p].err = "panic"]
            /\ UNCHANGED <<closeChan, dbMutex>>
       ELSE /\ closeChan' = "closed"
            /\ dbMutex' = p
            /\ pc' = Goto(p, "LogClose.lock")
            /\ UNCHANGED panicked
    /\ UNCHANGED <<storage, isClosed, bgRunning, log, disk, ghost, logMutex>>

(* startBackgroundTasks *)

\* The select takes a tick and calls db.log.Compact().
BgTick ==
    /\ At(Background, "idle")
    /\ bgRunning
    /\ pc' = [pc EXCEPT ![Background].at = "Compact.lock", ![Background].op = "Compact"]
    /\ UNCHANGED <<shared, ghost, dbMutex, logMutex>>

\* The select takes <-db.closeChan and the goroutine returns.
BgStop ==
    /\ At(Background, "idle")
    /\ bgRunning
    /\ closeChan = "closed"
    /\ bgRunning' = FALSE
    /\ UNCHANGED <<storage, isClosed, closeChan, panicked, log, disk, ghost, procVars>>

\* The keys and values the concurrent clients use.
ClientKeys == Keys \ {EmptyKey}
ClientValues == Values \ {NilValue}

MutationStep(p) ==
    \/ \E key \in ClientKeys, value \in ClientValues : SetCall(p, key, value)
    \/ SetClosed(p)
    \/ SetStore(p)
    \/ SetUndo(p)
    \/ \E key \in ClientKeys : DeleteCall(p, key)
    \/ DeleteClosed(p)
    \/ DeleteExists(p)
    \/ DeleteRemove(p)
    \/ AppendLock(p)
    \/ AppendWrite(p)

\* Two clients mutate the Engine side by side; the compactor's timer does not
\* fire and nobody closes.
NextConc == \E p \in Clients : MutationStep(p)

SpecConc == Init /\ [][NextConc]_vars

\* The record the callers of the Log append.
LogRecords ==
    {[operation |-> OperationSet, key |-> SubSeq(KeyText, 1, 1),
      value |-> [isNil |-> FALSE, bytes |-> <<1>>]]}

\* The positions of a goroutine inside l.mutex.
LogCritical == {"Append.write", "Compact.run", "LogClose.run"}

\* Three goroutines call Append, Compact and Close on one Log side by side.
NextLog ==
    \E p \in LogCallers :
        \/ \E r \in LogRecords : AppendCall(p, r.operation, r.key, r.value)
        \/ CompactCall(p)
        \/ LogCloseCall(p)
        \/ LogStep(p)

SpecLog == Init /\ [][NextLog]_vars

\* The key and the value the clients of the whole Engine use.
LifeKeys == {SubSeq(KeyText, 1, 1)}
LifeValues == {[isNil |-> FALSE, bytes |-> <<1>>]}

MaxLifeCalls == 1   \* a client of the whole Engine makes at most so many calls

\* A client enters a call of the Engine.
ClientEnter(p) ==
    \/ \E key \in LifeKeys, value \in LifeValues :
          pc[p].n < MaxLifeCalls /\ SetCall(p, key, value)
    \/ \E key \in LifeKeys : pc[p].n < MaxLifeCalls /\ DeleteCall(p, key)
    \/ \E key \in LifeKeys : pc[p].n < MaxLifeCalls /\ GetCall(p, key)
    \/ \E op \in {"Keys", "Size"} : pc[p].n < MaxLifeCalls /\ ScanCall(p, op)
    \/ pc[p].n < MaxLifeCalls /\ CloseCall(p)

\* The next statement of the call a client is in.
ClientProgress(p) ==
    \/ SetClosed(p)
    \/ SetStore(p)
    \/ SetUndo(p)
    \/ DeleteClosed(p)
    \/ DeleteExists(p)
    \/ DeleteRemove(p)
    \/ GetClosed(p)
    \/ GetRead(p)
    \/ ScanClosed(p)
    \/ ScanBucket(p)
    \/ CloseLock(p)
    \/ AppendLock(p)
    \/ AppendWrite(p)
    \/ LogCloseLock(p)
    \/ LogCloseRun(p)

\* The next statement of the compaction the background goroutine is in.
BgProgress == CompactLock(Background) \/ CompactRun(Background)

\* Clients call Set, Get, Delete, Keys, Size and Close side by side with the
\* background goroutine.
NextLife ==
    \/ \E p \in Clients : ClientEnter(p) \/ ClientProgress(p)
    \/ BgTick
    \/ BgStop
    \/ BgProgress

\* The scheduler runs every goroutine that can run; a goroutine waiting at a
\* sync.Mutex gets it after finitely many releases (the mutex hands the lock to
\* a waiter that has waited long), and a select that is again and again at a
\* closed closeChan takes that case at some point (it chooses at random among
\* the ready cases).
LifeFairness ==
    /\ \A p \in Clients : SF_vars(ClientProgress(p))
    /\ SF_vars(BgProgress)
    /\ SF_vars(BgStop)

SpecLife == Init /\ [][NextLife]_vars /\ LifeFairness

---------------------------------------------------------------------------
(* Properties *)

\* The Index as a set of (key, value bytes) pairs, read off the buckets.
IndexContents(ht) ==
    UNION {{<<k, ht[b][k].bytes>> : k \in DOMAIN ht[b]} : b \in DOMAIN ht}

IndexKeys(ht) == UNION {DOMAIN ht[b] : b \in DOMAIN ht}

LastRecord == disk.log[Len(disk.log)]

\* C1: replaying the records of the log, in append order, into an empty Index
\* yields exactly the Index contents (same keys, same value bytes), after any
\* sequence of Set and Delete calls with no compaction in between.
C1_ReplayEquivalence ==
    IndexContents(storage) = IndexContents(recoverFromLog(disk))

\* C2: when Log.Compact returns success, Recovery on the resulting log file and
\* its replay reconstruct the Index held when the compaction began.
C2_CompactionCorrectness ==
    [][(call' = "Compact" /\ ret'.err = "nil" /\ BackgroundCompact)
        => IndexContents(recoverFromLog(disk')) = IndexContents(storage)]_vars

\* C3: a Set or Delete that returns success has appended exactly one whole record
\* with its operation tag, key and value to the log; one that returns EmptyKey,
\* NilValue, NotFound or Closed has left the log file as it was.
C3_WriteAhead ==
    [][/\ (call' = "Set" /\ ret'.err = "nil") =>
            \A key \in Keys, value \in Values :
              DBSet(key, value) =>
                disk'.log = Append(disk.log, [op |-> OperationSet, key |-> key,
                                              value |-> value.bytes, torn |-> FALSE])
       /\ (call' = "Delete" /\ ret'.err = "nil") =>
            \A key \in Keys :
              DBDelete(key) =>
                disk'.log = Append(disk.log, [op |-> OperationDelete, key |-> key,
                                              value |-> <<>>, torn |-> FALSE])
       /\ (/\ call' \in {"Set", "Delete"}
           /\ ret'.err \in {"ErrEmptyKey", "ErrNilValue", "ErrKeyNotFound",
                             "ErrDatabaseClosed"}) =>
            disk' = disk]_vars

\* C3's case: a Delete returned success after its record went to the log.
C3_Witness ==
    /\ call = "Delete"
    /\ ret.err = "nil"
    /\ disk.log # <<>>
    /\ LastRecord.op = OperationDelete

\* C4: a Set whose log append fails leaves the Index with the contents it had
\* before the call (an absent key absent, a present key with its previous value).
C4_SetRollsBack ==
    [][(call' = "Set" /\ ret'.err = "AppendFailed") =>
          \A key \in Keys, value \in Values : DBSet(key, value) => storage' = storage]_vars

\* C5: a Delete whose log append fails leaves the key present with the value it
\* held before the call.
C5_DeleteRollsBack ==
    [][(call' = "Delete" /\ ret'.err = "AppendFailed") =>
          \A key \in Keys : DBDelete(key) => storage' = storage]_vars

\* C6: a Close that returns success leaves the Engine closed for good; from then
\* on Set, Get and Delete return the Closed error for every argument, Keys
\* returns the empty sequence, Size returns 0, and none of them changes the Index
\* or the log.
C6_PostClose ==
    [][/\ (call' = "Close" /\ ret'.err = "nil" /\ DBClose) => isClosed'
       /\ isClosed => isClosed'
       /\ isClosed =>
            /\ call' = "Set" =>
                  \A key \in Keys, value \in Values :
                    DBSet(key, value) =>
                      ret'.err = "ErrDatabaseClosed" /\ UNCHANGED <<storage, log, disk>>
            /\ call' = "Get" =>
                  \A key \in Keys :
                    DBGet(key) =>
                      ret'.err = "ErrDatabaseClosed" /\ UNCHANGED <<storage, log, disk>>
            /\ call' = "Delete" =>
                  \A key \in Keys :
                    DBDelete(key) =>
                      ret'.err = "ErrDatabaseClosed" /\ UNCHANGED <<storage, log, disk>>
            /\ (call' = "Keys" /\ DBKeys) =>
                  ret'.keys = {} /\ UNCHANGED <<storage, log, disk>>
            /\ (call' = "Size" /\ DBSize) =>
                  ret'.size = 0 /\ UNCHANGED <<storage, log, disk>>]_vars

\* C6's case: a Set was refused on a closed Engine whose Index is not empty.
C6_Witness ==
    /\ isClosed
    /\ call = "Set"
    /\ ret.err = "ErrDatabaseClosed"
    /\ IndexKeys(storage) # {}

\* C7: no Close call panics, whatever the earlier calls returned.
C7_CloseNeverPanics == ~panicked

\* C8: on an open Engine, Set with an empty key returns EmptyKey, Set with a
\* non-empty key and a nil value returns NilValue (the key is checked first),
\* Get and Delete with an empty key return EmptyKey; the Index, Size() and the
\* log are as before the call.
C8_ValidationNoSideEffect ==
    [][~isClosed =>
        /\ call' = "Set" =>
              /\ \A value \in Values :
                    DBSet(EmptyKey, value) =>
                      ret'.err = "ErrEmptyKey" /\ UNCHANGED <<storage, log, disk>>
              /\ \A key \in Keys \ {EmptyKey} :
                    DBSet(key, NilValue) =>
                      ret'.err = "ErrNilValue" /\ UNCHANGED <<storage, log, disk>>
        /\ (call' = "Get" /\ DBGet(EmptyKey)) =>
              ret'.err = "ErrEmptyKey" /\ UNCHANGED <<storage, log, disk>>
        /\ (call' = "Delete" /\ DBDelete(EmptyKey)) =>
              ret'.err = "ErrEmptyKey" /\ UNCHANGED <<storage, log, disk>>
        /\ (call' \in {"Set", "Get", "Delete"} /\ ret'.err \in {"ErrEmptyKey", "ErrNilValue"})
              => DBSizeResult(storage', isClosed').size = DBSizeResult(storage, isClosed).size
       ]_vars

\* C8's case: a Set with a nil value was rejected on an open Engine holding a key.
C8_Witness ==
    /\ ~isClosed
    /\ call = "Set"
    /\ ret.err = "ErrNilValue"
    /\ IndexKeys(storage) # {}
    /\ disk.log # <<>>

\* C9: on an open Engine, Get and Delete of a non-empty key with no Index entry
\* return NotFound; the Delete appends no record and leaves the Index unchanged.
C9_NotFound ==
    [][(~isClosed /\ call' \in {"Get", "Delete"}) =>
        \A key \in Keys \ {EmptyKey} :
            key \notin IndexKeys(storage) =>
                /\ DBGet(key) => ret'.err = "ErrKeyNotFound"
                /\ DBDelete(key) =>
                      /\ ret'.err = "ErrKeyNotFound"
                      /\ UNCHANGED <<storage, log, disk>>]_vars

\* C9's case: a Delete of a key that was set and deleted before returned NotFound.
C9_Witness ==
    /\ ~isClosed
    /\ call = "Delete"
    /\ ret.err = "ErrKeyNotFound"
    /\ \E i \in 1..Len(disk.log) : disk.log[i].op = OperationDelete

\* C10: on an open Engine, Get(k) returns the value of the most recent successful
\* Set(k, v) that no successful Delete(k) followed and NotFound otherwise; Size()
\* is the number of such keys and Keys() enumerates exactly them.
C10_LastWriteWins ==
    (~isClosed /\ ~panicked) =>
        /\ \A key \in Keys \ {EmptyKey} :
              DBGetResult(storage, isClosed, key) =
                  IF key \in DOMAIN committed
                  THEN Result("nil", committed[key], {}, 0)
                  ELSE Err("ErrKeyNotFound")
        /\ DBSizeResult(storage, isClosed).size = Cardinality(DOMAIN committed)
        /\ DBKeysResult(storage, isClosed).keys = DOMAIN committed

\* What a log file says the Index is: for every key, the value bytes of the last
\* whole record of the key, when that record is a Set.
ExpectedIndex(f) ==
    {<<f[i].key, f[i].value>> :
        i \in {i \in 1..Len(f) :
                 /\ ~f[i].torn
                 /\ f[i].op = OperationSet
                 /\ \A j \in (i + 1)..Len(f) : f[j].torn \/ f[j].key # f[i].key}}

\* C11: for every configuration New accepts, when New returns an Engine the
\* Index equals the replay of the records the log file held at startup, and the
\* background task is started only after the replay is over.
C11_StartupRecovery ==
    /\ (newPc = "returned" /\ call = "New") =>
            IndexContents(storage) = ExpectedIndex(disk.log)
    /\ bgRunning => newPc \in {"return", "returned"}

\* C11, for the configurations with AutoRecover set: when New returns an Engine
\* the Index equals the replay of the records the log file held at startup, and
\* the background task is started only after the replay is over.
C11_StartupRecoveryAuto ==
    /\ (newPc = "returned" /\ call = "New" /\ config.AutoRecover) =>
            IndexContents(storage) = ExpectedIndex(disk.log)
    /\ bgRunning => newPc \in {"return", "returned"}

\* C11's case: New returned an Engine that recovered a key from a log file
\* holding a Delete record too, and the background task runs.
C11_Witness ==
    /\ newPc = "returned"
    /\ call = "New"
    /\ config.AutoRecover
    /\ bgRunning
    /\ IndexKeys(storage) # {}
    /\ \E i \in 1..Len(disk.log) : disk.log[i].op = OperationDelete /\ ~disk.log[i].torn

\* The fields of a sequence of LogEntry values, a value by its bytes.
EntryContents(entries) ==
    [i \in DOMAIN entries |->
        [Timestamp |-> entries[i].Timestamp, Operation |-> entries[i].Operation,
         Key |-> entries[i].Key, bytes |-> entries[i].Value.bytes,
         Checksum |-> entries[i].Checksum]]

\* C12: on a log of well-formed records of which exactly one had one payload
\* byte flipped, RecoverEntries returns no error and returns, in order, every
\* record before and every record after the damaged one, and not the damaged one.
C12_CorruptionTolerance ==
    (damaged # 0 /\ recovered # <<>>) =>
        /\ recovered[1].err = "nil"
        /\ EntryContents(recovered[1].entries)
             = EntryContents(SubSeq(logEntries, 1, damaged - 1)
                             \o SubSeq(logEntries, damaged + 1, Len(logEntries)))

\* C12's case: the second of three records was damaged and RecoverEntries
\* returned two records.
C12_Witness ==
    /\ damaged = 2
    /\ Len(logEntries) = 3
    /\ recovered # <<>>
    /\ Len(recovered[1].entries) = 2

\* C13: readEntry on the bytes serializeEntry made of a record (Set or Delete, a
\* key of 1..65535 bytes, any value, the empty one too) returns no error (the
\* checksum validates), a record with the same timestamp, operation, key, value
\* and checksum, and a count of consumed bytes equal to the number of bytes made.
C13_RoundTrip ==
    read # <<>> =>
        /\ read[1].err = "nil"
        /\ read[1].entry = <<logEntries[1]>>
        /\ read[1].bytesRead = Len(serializeEntryBytes(logEntries[1]).data)

\* The goroutine has made one call, a Set(key, value) that returned success.
FirstSetDone(p, key, value) ==
    /\ pc[p].at = "idle"
    /\ pc[p].n = 1
    /\ pc[p].op = "Set"
    /\ pc[p].key = key
    /\ pc[p].value = value
    /\ pc[p].err = "nil"

\* C14: when two clients run Set(k, v1) and Set(k, v2) side by side and both
\* return success, the Index holds v1 or v2 for k and the log holds the two Set
\* records, each once and whole, one after the other.
C14_ConcurrentSets ==
    \A key \in ClientKeys, v1 \in ClientValues, v2 \in ClientValues :
        (FirstSetDone("c1", key, v1) /\ FirstSetDone("c2", key, v2)) =>
            /\ HashTableGet(storage, key).exists
            /\ HashTableGet(storage, key).value \in {v1, v2}
            /\ disk.log \in
                  {<<serializeEntry(OperationSet, key, v1), serializeEntry(OperationSet, key, v2)>>,
                   <<serializeEntry(OperationSet, key, v2), serializeEntry(OperationSet, key, v1)>>}

\* C14's case: both Sets returned success on one key with different values, and
\* the calls overlapped: the Index holds the value of the record written first.
C14_Witness ==
    \E key \in ClientKeys, v1 \in ClientValues, v2 \in ClientValues :
        /\ v1 # v2
        /\ FirstSetDone("c1", key, v1)
        /\ FirstSetDone("c2", key, v2)
        /\ Len(disk.log) = 2
        /\ HashTableGet(storage, key).value.bytes = disk.log[1].value

\* C15: with no failed append and no compaction, whatever the interleaving of
\* the clients' Set and Delete calls, once no call is in flight the Index equals
\* the replay of the log: it holds, for every key, the value of the key's last
\* record when that record is a Set, and nothing when it is a Delete.
C15_LogOrderMatchesIndex ==
    ((\A p \in Clients : pc[p].at = "idle") /\ ~log.writerErr) =>
        IndexContents(storage) = ExpectedIndex(disk.log)

\* C16: Close releases the log's file handle only when the background task has
\* taken the shutdown signal and returned, and the background task runs no
\* Log.Compact once Close has closed the log file.
C16_ShutdownOrdering ==
    [][/\ (call' = "Close" /\ log.file # "nil" /\ log'.file = "nil") => ~bgRunning
       /\ (isClosed /\ call' = "Compact") => ~BackgroundCompact]_vars

\* C18: a Log.Compact that fails before the rename (at the creation of the
\* temporary file, the flush, the close of the old handle or the close of the
\* temporary file) leaves database.log with exactly the records it had, so that
\* Recovery reconstructs the Index after the call if it did before.
C18_CompactFailureKeepsLog ==
    [][(/\ call' = "Compact"
        /\ ret'.err \in {"create", "flush", "closeOld", "closeTemp"}
        /\ BackgroundCompact) =>
          /\ disk'.log = disk.log
          /\ IndexContents(recoverFromLog(disk)) = IndexContents(storage)
                => IndexContents(recoverFromLog(disk')) = IndexContents(storage')]_vars

\* C18's case: a compaction failed at the close of the temporary file on a log
\* holding the records of a non-empty Index.
C18_Witness ==
    /\ call = "Compact"
    /\ ret.err = "closeTemp"
    /\ disk.log # <<>>
    /\ IndexKeys(storage) # {}
    /\ IndexContents(recoverFromLog(disk)) = IndexContents(storage)

\* C17: an Append called while a Log.Compact is in flight and returning success
\* wrote its record when that compaction had finished (it waited for it), and
\* the record is the last one, whole, of the log file the compaction left.
C17_AppendDuringCompaction ==
    [][\A p \in LogCallers :
          (/\ pc[p].at = "Append.write"
           /\ pc[p].during
           /\ pc'[p].at = "idle"
           /\ pc'[p].err = "nil") =>
              /\ ~CompactionInFlight
              /\ ~CompactionInFlight'
              /\ disk'.log # <<>>
              /\ disk'.log[Len(disk'.log)] =
                    serializeEntry(pc[p].operation, pc[p].key, pc[p].value)]_vars

\* C17's case: an Append called during a compaction has returned success, the
\* compaction has emptied the file, and the file holds the record.
C17_Witness ==
    \E p \in LogCallers, q \in LogCallers :
        /\ pc[p].at = "idle" /\ pc[p].op = "Append" /\ pc[p].during /\ pc[p].err = "nil"
        /\ pc[q].at = "idle" /\ pc[q].op = "Compact" /\ pc[q].err = "nil"
        /\ disk.log = <<serializeEntry(pc[p].operation, pc[p].key, pc[p].value)>>

\* C19: at most one goroutine is inside Append, Compact or Close of the Log, it
\* is the holder of l.mutex (so at most one compaction runs and a second Compact
\* waits), and the file handle, the writer and the file change only in a step
\* of that goroutine.
C19_SingleWriter ==
    /\ [](\A p \in Procs, q \in Procs :
            (pc[p].at \in LogCritical /\ pc[q].at \in LogCritical) =>
                (p = q /\ logMutex = p))
    /\ [][(log' # log \/ disk' # disk) =>
            \E p \in Procs : /\ logMutex = p
                             /\ pc[p].at \in LogCritical
                             /\ pc'[p].at \notin LogCritical
                             /\ \A q \in Procs \ {p} : pc'[q] = pc[q]]_vars

\* C19's case: one compaction is running while a second Compact and an Append
\* stand at the lock.
C19_Witness ==
    \E p \in LogCallers, q \in LogCallers, r \in LogCallers :
        /\ pc[p].at = "Compact.run"
        /\ logMutex = p
        /\ pc[q].at = "Compact.lock"
        /\ pc[r].at = "Append.lock"

\* C20: under fair scheduling every call a client has started returns (so no
\* set of goroutines is stuck at db.mutex, the bucket locks and l.mutex), and
\* once closeChan is closed the background goroutine ends, by its return or
\* with the process.
C20_NoOperationBlocks ==
    /\ \A p \in Clients : (pc[p].at # "idle") ~> (pc[p].at = "idle")
    /\ (closeChan = "closed") ~> (~bgRunning \/ panicked)

\* C21: RecoverEntries returns no error; on a file of whole records that ends
\* inside its last record it returns, in order, exactly the records before the
\* partial one; and every iteration of its loop either moves the reader forward
\* by at least one byte or ends the loop, so that the loop takes at most one
\* iteration per byte of the file and one more.
C21_TruncatedRecords ==
    /\ [](recovered # <<>> =>
            /\ recovered[1].err = "nil"
            /\ damaged = 0 =>
                  EntryContents(recovered[1].entries) = EntryContents(CompleteRecords))
    /\ [](scan # <<>> =>
            /\ scan[1].pos <= Len(fileBytes)
            /\ scan[1].n <= Len(fileBytes) + 1
            /\ scan[1].done =>
                  /\ scan[1].pos = Len(fileBytes)
                  /\ EntryContents(scan[1].entries) = EntryContents(CompleteRecords))
    /\ [][(scan # <<>> /\ scan' # <<>> /\ scan'[1].n > scan[1].n) =>
            (scan'[1].pos > scan[1].pos \/ scan'[1].done)]_vars

\* C21's case: the file ended inside its third record, the loop has ended and
\* RecoverEntries holds the two records before it.
C21_Witness ==
    /\ Len(logEntries) = 3
    /\ ~FileWhole
    /\ scan # <<>>
    /\ scan[1].done
    /\ Len(scan[1].entries) = 2

\* C22: a Log.Compact on a Log with an open file and a working writer leaves,
\* whatever it returns, an open file and a working writer, so that an Append of
\* any Set record whose write does not fail returns no error.
C22_LogStaysWritable ==
    [][(/\ call' = "Compact"
        /\ BackgroundCompact
        /\ log.file = "open"
        /\ ~log.writerErr) =>
          /\ log'.file = "open"
          /\ ~log'.writerErr
          /\ \A key \in Keys \ {EmptyKey}, value \in Values \ {NilValue} :
                LogAppend(log', disk', OperationSet, key, value, "ok").err = "nil"]_vars

====
